---- MODULE Spec2Model ----
(***************************************************************************)
(* Model of src/streamlit_app.py: build_price_levels (the price ladder),   *)
(* find_optimal_allocation (the search for the largest initial lot Q0) and *)
(* build_display_df (the per-level running metrics).                       *)
(*                                                                         *)
(* Numbers.  The program computes on Python floats (IEEE-754 binary64:     *)
(* 53-bit significands, every result rounded to the nearest representable  *)
(* number, ties to even, gradual underflow) and on Python ints.  The model *)
(* keeps that arithmetic and shrinks the format.  A float is the integer   *)
(* count v of the smallest positive float, its value being v / One with    *)
(* One a power of two; it is representable when v has at most Precision    *)
(* significant bits.  Small integers and binary fractions are exact and    *)
(* decimal fractions such as 0.01 are not, as in binary64.  The smallest   *)
(* normal number lies below a quarter of a cent, so that prices and their  *)
(* products with a tolerance are rounded relatively, to Precision bits;    *)
(* smaller numbers underflow gradually, as binary64 numbers do below       *)
(* 2^-1022.  Python ints (share counts) are TLA+ integers and convert to   *)
(* float exactly, as ints below 2^53 do.                                   *)
(***************************************************************************)
EXTENDS Integers, Sequences, FiniteSets

\* ---------------------------------------------------------------- format
Precision == 5

RECURSIVE Pow2(_)
Pow2(k) == IF k = 0 THEN 1 ELSE 2 * Pow2(k - 1)

\* 1.0
One == Pow2(Precision + 8)

\* ------------------------------------------------------------ arithmetic
Abs(x) == IF x < 0 THEN -x ELSE x

Sign(x) == IF x < 0 THEN -1 ELSE 1

\* n / d (n >= 0, d > 0) rounded to the nearest integer, ties to even
RoundHalfEven(n, d) ==
    LET q == n \div d
        r == n % d
    IN  IF 2 * r > d \/ (2 * r = d /\ q % 2 = 1) THEN q + 1 ELSE q

\* the least k >= 0 with n / d < 2^(Precision + k): the binary exponent of n / d
RECURSIVE Exponent(_, _, _)
Exponent(n, d, k) ==
    IF n < d * Pow2(Precision + k) THEN k ELSE Exponent(n, d, k + 1)

\* the representable number nearest to n / d (d > 0), ties to even
RoundQ(n, d) ==
    LET k == Exponent(Abs(n), d, 0)
    IN  Sign(n) * Pow2(k) * RoundHalfEven(Abs(n), d * Pow2(k))

FAdd(a, b) == RoundQ(a + b, 1)

FSub(a, b) == RoundQ(a - b, 1)

FMul(a, b) == RoundQ(a * b, One)

FDiv(a, b) == RoundQ(Sign(b) * a * One, Abs(b))

\* a * n, n a Python int
MulInt(a, n) == RoundQ(a * n, 1)

\* a / n, n a Python int
DivInt(a, n) == RoundQ(Sign(n) * a, Abs(n))

\* math.ceil of a float, a Python int
Ceil(a) == -((-a) \div One)

\* the float nearest to c / 100: the decimal c cents, or c per cent
Cents(c) == RoundQ(c * One, 100)

\* the float nearest to k / 200
HalfCents(k) == RoundQ(k * One, 200)

\* round(p, 2): p to the nearest hundredth, ties to even, as a float
Round2(p) == Cents(Sign(p) * RoundHalfEven(Abs(p) * 100, One))

\* ------------------------------------------------------------------ state
VARIABLES
    pc,              \* the statement the running function is at
    start_price, end_price, interval_type, interval_value,
    prices,          \* the ladder: build_price_levels' list, then its callers'
    current_price,
    warnings,        \* the st.warning messages emitted so far
    budget, avg_cost_margin,
    Q0, Q, S_price, S_shares, i,
    best_Q0, best_solution,
    previous,        \* the budget and the result of the run before this one
    compensated_sum, \* whether the interpreter's sum() of floats is compensated
    shares, rows, cum_invest

bplVars == <<start_price, end_price, interval_type, interval_value,
             current_price, warnings>>

foaVars == <<budget, avg_cost_margin, Q0, Q, S_price, S_shares, i,
             best_Q0, best_solution, previous, compensated_sum>>

dfVars == <<shares, rows, cum_invest>>

vars == <<pc, prices, bplVars, foaVars, dfVars>>

None == <<>>

WarnStart == "Starting price must be ABOVE the Lowest Expected Price."

WarnInterval == "Interval value must be positive."

\* --------------------------------------------------- build_price_levels
\* the start check with < for <=
StartNotAbove_Strict(start, end) == start < end

\* line 18
StartNotAbove(start, end) == start <= end

\* line 22
IntervalNotPositive(value) == value <= 0

\* lines 29-32
NextPrice(current, type, value) ==
    IF type = "$" THEN FSub(current, value)
    ELSE FMul(current, FSub(One, value))

\* line 42
RoundAll(ps) == [k \in 1..Len(ps) |-> Round2(ps[k])]

\* start and floor prices: the half cents up to MaxHalfCents of them
MaxHalfCents == 6
MaxLevels == 48

\* line 151: a start price is at least 0.01
StartPrices == { HalfCents(k) : k \in 2..MaxHalfCents }

\* line 152: a floor price is at least 0
EndPrices == { HalfCents(k) : k \in 0..MaxHalfCents }

\* "$": steps of -0.01 to 0.05; "%": fractions of -1 % to 150 %
IntervalValues(type) ==
    IF type = "$" THEN { Cents(c) : c \in {-1, 0, 1, 5} } \cup { HalfCents(1) }
    ELSE { Cents(c) : c \in {-1, 0, 5, 50, 100, 150} }

InitLadder ==
    /\ start_price \in StartPrices
    /\ end_price \in EndPrices
    /\ interval_type \in {"$", "%"}
    /\ interval_value \in IntervalValues(interval_type)
    /\ prices = <<>>
    /\ current_price = start_price
    /\ warnings = <<>>
    /\ pc = "bpl_check"
    /\ budget = 0 /\ avg_cost_margin = 0
    /\ Q0 = 0 /\ Q = <<>> /\ S_price = 0 /\ S_shares = 0 /\ i = 0
    /\ best_Q0 = 0 /\ best_solution = None /\ previous = None
    /\ compensated_sum = FALSE
    /\ shares = <<>> /\ rows = <<>> /\ cum_invest = 0

BPL_StartNotAbove ==
    /\ pc = "bpl_check"
    /\ StartNotAbove(start_price, end_price)
    /\ warnings' = Append(warnings, WarnStart)
    /\ prices' = <<Round2(start_price)>>
    /\ pc' = "bpl_done"
    /\ UNCHANGED <<start_price, end_price, interval_type, interval_value, current_price>>
    /\ UNCHANGED <<foaVars, dfVars>>

BPL_IntervalNotPositive ==
    /\ pc = "bpl_check"
    /\ ~StartNotAbove(start_price, end_price)
    /\ IntervalNotPositive(interval_value)
    /\ warnings' = Append(warnings, WarnInterval)
    /\ prices' = <<Round2(start_price), Round2(end_price)>>
    /\ pc' = "bpl_done"
    /\ UNCHANGED <<start_price, end_price, interval_type, interval_value, current_price>>
    /\ UNCHANGED <<foaVars, dfVars>>

BPL_Begin ==
    /\ pc = "bpl_check"
    /\ ~StartNotAbove(start_price, end_price)
    /\ ~IntervalNotPositive(interval_value)
    /\ prices' = Append(prices, current_price)
    /\ pc' = "bpl_loop"
    /\ UNCHANGED <<start_price, end_price, interval_type, interval_value,
                   current_price, warnings>>
    /\ UNCHANGED <<foaVars, dfVars>>

BPL_Extend ==
    /\ pc = "bpl_loop"
    /\ Len(prices) < MaxLevels
    /\ LET next_price == NextPrice(current_price, interval_type, interval_value)
       IN  /\ ~(next_price <= end_price)
           /\ prices' = Append(prices, next_price)
           /\ current_price' = next_price
    /\ UNCHANGED <<pc, start_price, end_price, interval_type, interval_value, warnings>>
    /\ UNCHANGED <<foaVars, dfVars>>

BPL_Break ==
    /\ pc = "bpl_loop"
    /\ NextPrice(current_price, interval_type, interval_value) <= end_price
    /\ prices' = RoundAll(Append(prices, end_price))
    /\ pc' = "bpl_done"
    /\ UNCHANGED <<start_price, end_price, interval_type, interval_value,
                   current_price, warnings>>
    /\ UNCHANGED <<foaVars, dfVars>>

NextLadder ==
    \/ BPL_StartNotAbove
    \/ BPL_IntervalNotPositive
    \/ BPL_Begin
    \/ BPL_Extend
    \/ BPL_Break

SpecLadder == InitLadder /\ [][NextLadder]_vars

\* ------------------------------------------- claims on build_price_levels
StrictlyDecreasing(ps) == \A k \in 1..(Len(ps) - 1) : ps[k] > ps[k + 1]

ValidLadderInputs == start_price > end_price /\ interval_value > 0

\* C4: for start > floor and step > 0 the returned ladder is strictly
\* decreasing after two-decimal rounding, starts at round(start, 2), ends at
\* round(floor, 2), and no element but the last is <= floor.
C4_LadderStrictlyDecreasing ==
    (pc = "bpl_done" /\ ValidLadderInputs) =>
        /\ StrictlyDecreasing(prices)
        /\ prices[1] = Round2(start_price)
        /\ prices[Len(prices)] = Round2(end_price)
        /\ \A k \in 1..(Len(prices) - 1) : ~(prices[k] <= end_price)

\* C5: start <= floor returns [round(start, 2)] whatever the step is; otherwise
\* a step <= 0 returns [round(start, 2), round(floor, 2)]; one warning is
\* emitted in each of these two cases and none in any other.
C5_DegradedLadders ==
    pc = "bpl_done" =>
        /\ start_price <= end_price =>
              /\ prices = <<Round2(start_price)>>
              /\ warnings = <<WarnStart>>
        /\ (start_price > end_price /\ interval_value <= 0) =>
              /\ prices = <<Round2(start_price), Round2(end_price)>>
              /\ warnings = <<WarnInterval>>
        /\ ValidLadderInputs => warnings = <<>>

\* the start check has returned although the step, too, is not positive
C5_Witness ==
    /\ pc = "bpl_done"
    /\ start_price = end_price
    /\ interval_value <= 0
    /\ prices = <<Round2(start_price)>>

\* C9: on every iteration of the extension loop the current price strictly
\* decreases (so that the next price reaches the floor and the loop ends).
C9_PriceStrictlyDecreases ==
    [][(pc = "bpl_loop" /\ pc' = "bpl_loop") => current_price' < current_price]_vars

\* ---------------------------------------------- find_optimal_allocation
max_Q0_search == 4
MaxCents == 2
MaxLadderLen == 3

\* the ladders build_price_levels returns: whole cents, never increasing
Ladders ==
    { ps \in UNION { [1..n -> { Cents(c) : c \in 0..MaxCents }] : n \in 1..MaxLadderLen } :
        /\ ps[1] > 0
        /\ \A k \in 1..(Len(ps) - 1) : ps[k] >= ps[k + 1] }

\* 0 to 12 cents
Budgets == { Cents(c) : c \in {0, 2, 5, 12} }

\* 0 %, 25 %, 30 %, 100 %
Margins == { Cents(c) : c \in {0, 25, 30, 100} }

\* lines 65-72: the shares to buy at price p_i
BuyNeeded(s_price, s_shares, p_i, margin) ==
    LET lhs == FSub(s_price, MulInt(FMul(FAdd(One, margin), p_i), s_shares))
        denom == FMul(margin, p_i)
        min_needed == IF denom # 0 THEN FDiv(lhs, denom) ELSE 0
    IN  Ceil(IF min_needed < 0 THEN 0 ELSE min_needed)

\* line 78: sum(p*q for p,q in zip(prices, Q)).  CPython up to 3.11 adds the
\* products up from the left, rounding every partial sum; from 3.12 on sum()
\* compensates and returns the exact sum of the products, rounded once.
RECURSIVE SumProducts(_, _, _, _)
SumProducts(ps, qs, n, compensated) ==
    IF n = 0 THEN 0
    ELSE IF compensated THEN SumProducts(ps, qs, n - 1, compensated) + MulInt(ps[n], qs[n])
    ELSE FAdd(SumProducts(ps, qs, n - 1, compensated), MulInt(ps[n], qs[n]))

TotalCost(ps, qs) == RoundQ(SumProducts(ps, qs, Len(ps), compensated_sum), 1)

\* the budget check with < for <=
WithinBudget_Strict(total_cost, b) == total_cost < b

\* the budget check with its operands swapped
WithinBudget_Swapped(total_cost, b) == b <= total_cost

\* line 79
WithinBudget(total_cost, b) == total_cost <= b

\* line 80
Improves(q0, best) == q0 > best

InitAlloc ==
    /\ prices \in Ladders
    /\ budget \in Budgets
    /\ avg_cost_margin \in Margins
    /\ Q0 = 0 /\ Q = <<>> /\ S_price = 0 /\ S_shares = 0 /\ i = 0
    /\ best_Q0 = 0 /\ best_solution = None /\ previous = None
    /\ compensated_sum \in BOOLEAN
    /\ shares = <<>> /\ rows = <<>> /\ cum_invest = 0
    /\ pc = "foa_for"
    /\ start_price = 0 /\ end_price = 0 /\ interval_type = "$"
    /\ interval_value = 0 /\ current_price = 0 /\ warnings = <<>>

\* lines 56-61: the next candidate Q0
FOA_Candidate ==
    /\ pc = "foa_for"
    /\ Q0 <= max_Q0_search
    /\ Q' = [k \in 1..Len(prices) |-> IF k = 1 THEN Q0 ELSE 0]
    /\ S_price' = MulInt(prices[1], Q0)
    /\ S_shares' = Q0
    /\ i' = 1
    /\ pc' = "foa_level"
    /\ UNCHANGED <<prices, bplVars, budget, avg_cost_margin, Q0,
                   best_Q0, best_solution, previous, compensated_sum, dfVars>>

\* lines 63-76: the top-up at level i
FOA_Level ==
    /\ pc = "foa_level"
    /\ i < Len(prices)
    /\ LET p_i == prices[i + 1]
           buy_i == BuyNeeded(S_price, S_shares, p_i, avg_cost_margin)
       IN  /\ Q' = [Q EXCEPT ![i + 1] = buy_i]
           /\ S_price' = FAdd(S_price, MulInt(p_i, buy_i))
           /\ S_shares' = S_shares + buy_i
    /\ i' = i + 1
    /\ UNCHANGED <<pc, prices, bplVars, budget, avg_cost_margin, Q0,
                   best_Q0, best_solution, previous, compensated_sum, dfVars>>

\* lines 78-82: the candidate's cost against the budget
FOA_Evaluate ==
    /\ pc = "foa_level"
    /\ i >= Len(prices)
    /\ LET total_cost == TotalCost(prices, Q)
       IN  IF WithinBudget(total_cost, budget) /\ Improves(Q0, best_Q0)
           THEN /\ best_Q0' = Q0
                /\ best_solution' = <<Q, total_cost>>
           ELSE UNCHANGED <<best_Q0, best_solution>>
    /\ Q0' = Q0 + 1
    /\ pc' = "foa_for"
    /\ UNCHANGED <<prices, bplVars, budget, avg_cost_margin, Q, S_price, S_shares,
                   i, previous, compensated_sum, dfVars>>

\* line 84
FOA_Return ==
    /\ pc = "foa_for"
    /\ Q0 > max_Q0_search
    /\ pc' = "foa_done"
    /\ UNCHANGED <<prices, bplVars, foaVars, dfVars>>

\* main, lines 165-167: "Run Simulation" pressed again with a larger budget
RunAgain ==
    /\ pc = "foa_done"
    /\ \E b \in Budgets :
          /\ b > budget
          /\ budget' = b
    /\ previous' = <<budget, best_solution>>
    /\ Q0' = 0 /\ Q' = <<>> /\ S_price' = 0 /\ S_shares' = 0 /\ i' = 0
    /\ best_Q0' = 0 /\ best_solution' = None
    /\ pc' = "foa_for"
    /\ UNCHANGED <<prices, bplVars, avg_cost_margin, compensated_sum, dfVars>>

NextAlloc ==
    \/ FOA_Candidate
    \/ FOA_Level
    \/ FOA_Evaluate
    \/ FOA_Return
    \/ RunAgain

SpecAlloc == InitAlloc /\ [][NextAlloc]_vars

\* -------------------------------------- claims on find_optimal_allocation
\* lines 57-76 as a function of the candidate: the schedule Q0 induces
RECURSIVE TopUps(_, _, _, _, _)
TopUps(ps, qs, s_price, s_shares, margin) ==
    IF Len(qs) = Len(ps) THEN qs
    ELSE LET p_i == ps[Len(qs) + 1]
             buy_i == BuyNeeded(s_price, s_shares, p_i, margin)
         IN  TopUps(ps, Append(qs, buy_i), FAdd(s_price, MulInt(p_i, buy_i)),
                    s_shares + buy_i, margin)

InducedSchedule(ps, q0, margin) ==
    TopUps(ps, <<q0>>, MulInt(ps[1], q0), q0, margin)

InducedCost(q0) == TotalCost(prices, InducedSchedule(prices, q0, avg_cost_margin))

\* the exact sums of the claims: cost (in units of 1 / One) and shares of levels 1..n
RECURSIVE CumCost(_, _, _)
CumCost(ps, qs, n) == IF n = 0 THEN 0 ELSE CumCost(ps, qs, n - 1) + ps[n] * qs[n]

RECURSIVE CumShares(_, _)
CumShares(qs, n) == IF n = 0 THEN 0 ELSE CumShares(qs, n - 1) + qs[n]

\* after level n: running average cost <= (1 + margin) * price[n]
AverageWithin(ps, qs, n, margin) ==
    CumCost(ps, qs, n) * One <= (One + margin) * ps[n] * CumShares(qs, n)

\* buying b at level n: (S_price + p*b) <= (1 + margin) * p * (S_shares + b)
Satisfies(ps, qs, n, b, margin) ==
    (CumCost(ps, qs, n - 1) + ps[n] * b) * One
        <= (One + margin) * ps[n] * (CumShares(qs, n - 1) + b)

Returned == pc = "foa_done" /\ best_solution # None

\* C1: in a returned schedule the running average cost after every level
\* i >= 1 is <= (1 + tolerance) * price[i], for every tolerance >= 0.
C1_AverageWithinTolerance ==
    Returned =>
        \A n \in 2..Len(prices) :
            AverageWithin(prices, best_solution[1], n, avg_cost_margin)

\* C2: a returned total_cost is the sum of price[i]*Q[i] and is <= budget, and
\* every Q0 above the returned one, up to max_Q0_search, induces a schedule
\* costing more than the budget.
C2_LargestFeasibleQ0 ==
    Returned =>
        LET Qb == best_solution[1]
            total == best_solution[2]
        IN  /\ total = TotalCost(prices, Qb)
            /\ total <= budget
            /\ Qb = InducedSchedule(prices, Qb[1], avg_cost_margin)
            /\ Qb[1] \in 0..max_Q0_search
            /\ \A q \in (Qb[1] + 1)..max_Q0_search : InducedCost(q) > budget

\* a lot above 1 and below the search bound is returned, with a top-up
C2_Witness ==
    /\ Returned
    /\ best_solution[1][1] > 1
    /\ best_solution[1][1] < max_Q0_search
    /\ \E n \in 2..Len(prices) : best_solution[1][n] > 0

\* C3: no solution is returned exactly when no Q0 in 0..max_Q0_search is
\* within the budget; when Q0 = 0 is the only one, the all-zero schedule with
\* total cost 0 is returned.
C3_InfeasibleOnlyWithoutCandidate ==
    pc = "foa_done" =>
        /\ best_solution = None <=> \A q \in 0..max_Q0_search : InducedCost(q) > budget
        /\ (\A q \in 1..max_Q0_search : InducedCost(q) > budget) /\ InducedCost(0) <= budget
              => best_solution = <<[k \in 1..Len(prices) |-> 0], 0>>

\* C6: of two runs on the same ladder and tolerance, the one with the larger
\* budget returns a solution if the other does, with a Q0 at least as large.
C6_BudgetMonotone ==
    (pc = "foa_done" /\ previous # None) =>
        LET NoLess(r1, r2) == r1 # None => (r2 # None /\ r2[1][1] >= r1[1][1])
        IN  previous[1] <= budget => NoLess(previous[2], best_solution)

\* the budget was raised and the returned Q0 grew
C6_Witness ==
    /\ Returned
    /\ previous # None
    /\ previous[1] < budget
    /\ previous[2] # None
    /\ best_solution[1][1] > previous[2][1][1]

\* C7: with tolerance 0 every top-up of every candidate is 0, and the
\* returned Q0 is one for which the average-cost inequality holds at every level.
C7_ZeroTolerance ==
    avg_cost_margin = 0 =>
        /\ pc = "foa_level" => \A n \in 2..i : Q[n] = 0
        /\ Returned =>
              \A n \in 2..Len(prices) :
                  /\ best_solution[1][n] = 0
                  /\ AverageWithin(prices, best_solution[1], n, 0)

\* C8: for tolerance > 0 and positive prices, every top-up Q[i] satisfies the
\* inequality and, when Q[i] >= 1, Q[i] - 1 does not.
C8_MinimalTopUp ==
    (/\ pc = "foa_level"
     /\ avg_cost_margin > 0
     /\ \A n \in 1..Len(prices) : prices[n] > 0) =>
        \A n \in 2..i :
            /\ Satisfies(prices, Q, n, Q[n], avg_cost_margin)
            /\ Q[n] >= 1 => ~Satisfies(prices, Q, n, Q[n] - 1, avg_cost_margin)

\* ------------------------------------------------------ build_display_df
MaxShares == 2

Schedules(n) == [1..n -> 0..MaxShares]

\* the guard of the average one share off
AvgCost_OffByOne(s_price, s_shares) == IF s_shares > 1 THEN DivInt(s_price, s_shares) ELSE 0

\* line 103
AvgCost(s_price, s_shares) == IF s_shares > 0 THEN DivInt(s_price, s_shares) ELSE 0

\* lines 105-107
DiffVsAvg(p, avg_cost) ==
    IF avg_cost # 0 THEN MulInt(FDiv(FSub(p, avg_cost), avg_cost), 100) ELSE 0

InitDisplay ==
    /\ prices \in Ladders
    /\ shares \in Schedules(Len(prices))
    /\ rows = <<>>
    /\ S_price = 0 /\ S_shares = 0 /\ cum_invest = 0
    /\ pc = "df_loop"
    /\ start_price = 0 /\ end_price = 0 /\ interval_type = "$"
    /\ interval_value = 0 /\ current_price = 0 /\ warnings = <<>>
    /\ budget = 0 /\ avg_cost_margin = 0 /\ Q0 = 0 /\ Q = <<>> /\ i = 0
    /\ best_Q0 = 0 /\ best_solution = None /\ previous = None
    /\ compensated_sum = FALSE

\* lines 98-119: the row of the next (price, shares) pair
DF_Row ==
    /\ pc = "df_loop"
    /\ Len(rows) < Len(prices) /\ Len(rows) < Len(shares)
    /\ LET p == prices[Len(rows) + 1]
           q == shares[Len(rows) + 1]
           cost == MulInt(p, q)
           avg_cost == AvgCost(S_price', S_shares')
       IN  /\ S_price' = FAdd(S_price, cost)
           /\ S_shares' = S_shares + q
           /\ cum_invest' = FAdd(cum_invest, cost)
           /\ rows' = Append(rows,
                 [Price |-> Round2(p),
                  SharesPurchased |-> q,
                  AveragePurchasePrice |-> Round2(avg_cost),
                  PctDiff |-> Round2(DiffVsAvg(p, avg_cost)),
                  CostOfPurchase |-> Round2(cost),
                  CumulativeInvestment |-> Round2(cum_invest'),
                  CumulativeShares |-> S_shares'])
    /\ UNCHANGED <<pc, prices, bplVars, shares, budget, avg_cost_margin, Q0, Q, i,
                   best_Q0, best_solution, previous, compensated_sum>>

\* line 120
DF_Return ==
    /\ pc = "df_loop"
    /\ ~(Len(rows) < Len(prices) /\ Len(rows) < Len(shares))
    /\ pc' = "df_done"
    /\ UNCHANGED <<prices, bplVars, foaVars, dfVars>>

NextDisplay ==
    \/ DF_Row
    \/ DF_Return

SpecDisplay == InitDisplay /\ [][NextDisplay]_vars

\* ----------------------------------------------- claim on build_display_df
\* the cost of levels 1..n as the floats add up
RECURSIVE RunningCost(_, _, _)
RunningCost(ps, qs, n) ==
    IF n = 0 THEN 0 ELSE FAdd(RunningCost(ps, qs, n - 1), MulInt(ps[n], qs[n]))

\* C10: one record per level, in ladder order; Cumulative Shares is the exact
\* prefix sum of the quantities; the average is cumulative cost / cumulative
\* shares, or 0 when there are no shares; the deviation is
\* (price - avg_cost) / avg_cost * 100, or 0 when avg_cost is 0 (both are
\* emitted rounded to two decimals).
C10_DisplayRows ==
    pc = "df_done" =>
        /\ Len(rows) = Len(prices)
        /\ \A n \in 1..Len(rows) :
              LET cum_shares == CumShares(shares, n)
                  cum_cost == RunningCost(prices, shares, n)
                  avg == IF cum_shares = 0 THEN 0 ELSE RoundQ(cum_cost, cum_shares)
                  dev == IF avg = 0 THEN 0
                         ELSE RoundQ(100 * RoundQ(FSub(prices[n], avg) * One, avg), 1)
              IN  /\ rows[n].Price = Round2(prices[n])
                  /\ rows[n].SharesPurchased = shares[n]
                  /\ rows[n].CumulativeShares = cum_shares
                  /\ rows[n].AveragePurchasePrice = Round2(avg)
                  /\ rows[n].PctDiff = Round2(dev)

\* a schedule with a leading zero quantity and a later purchase below the average
C10_Witness ==
    /\ pc = "df_done"
    /\ Len(rows) >= 3
    /\ shares[1] = 0 /\ shares[2] > 0 /\ shares[3] > 0
    /\ rows[1].AveragePurchasePrice = 0 /\ rows[1].PctDiff = 0
    /\ rows[3].PctDiff < 0

====
